---- MODULE Spec2Model ----
(***************************************************************************)
(* A model of sleap.nn.tracking: the matching solvers (greedy_matching,    *)
(* hungarian_matching), the similarity scorer instance_similarity, the     *)
(* SimpleCandidateMaker and the Tracker's per-frame step Tracker.track     *)
(* with its bounded matching queue.                                        *)
(*                                                                         *)
(* Conventions.                                                            *)
(*  - Python's None is the empty sequence <<>>, a present value v is <<v>>.*)
(*  - A float is a record: Num(v) a finite number, NaN, or Inf.  A         *)
(*    similarity Num(v) stands for v / (10000 * SimUnit); exp(-d) is the   *)
(*    table ExpNeg(d), rounded to 1/10000.                                 *)
(*  - Sequences are 1-based: row/column index i here is index i-1 in the   *)
(*    Python code.                                                         *)
(*  - A Track is compared by identity; its identity is its position in     *)
(*    spawned_tracks (the order of allocation).                            *)
(***************************************************************************)
EXTENDS Integers, Sequences, FiniteSets, TLC

\* ------------------------------------------------------------------ bounds
\* Number of track calls explored on one Tracker.
MaxCalls == 3
\* Largest number of detections handed to one track call.
MaxDet == 2
\* Largest track_window a Tracker is constructed with.
MaxWindow == 2
\* Number of keypoints (skeleton nodes) of every instance.
NNodes == 2
\* Largest side of a cost matrix handed directly to a solver.
MaxSide == 2

\* ------------------------------------------------------------------ floats
Num(v) == [k |-> "num", v |-> v]
NaN == [k |-> "nan", v |-> 0]
Inf == [k |-> "inf", v |-> 0]

IsNaN(x) == x.k = "nan"
IsInf(x) == x.k = "inf"
IsNum(x) == x.k = "num"

\* -x for a float x that is a number or NaN (the similarity matrix holds no inf).
Neg(x) == IF IsNum(x) THEN Num(0 - x.v) ELSE x

RECURSIVE SumSeq(_)
SumSeq(s) == IF s = <<>> THEN 0 ELSE Head(s) + SumSeq(Tail(s))

RECURSIVE Factorial(_)
Factorial(n) == IF n <= 1 THEN 1 ELSE n * Factorial(n - 1)

Range(s) == {s[i] : i \in 1..Len(s)}

\* A list built by a comprehension, as a sequence value.
List(f) == f \o <<>>

\* ------------------------------------------------------------------ instances
\* A keypoint: visible at (x, y), or missing (a NaN row of points_array).
Pt(x, y) == [vis |-> TRUE, x |-> x, y |-> y]
Missing == [vis |-> FALSE, x |-> 0, y |-> 0]

Nodes == 1..NNodes

\* Instance.n_visible_points
n_visible_points(points) == Cardinality({n \in Nodes : points[n].vis})

\* A detection as the caller passes it: no track, default tracking_score.
Detection(points) == [points |-> points, track |-> <<>>, tracking_score |-> Num(0)]

FullAt(p) == List([n \in Nodes |-> p])
NoneVisible == List([n \in Nodes |-> Missing])

\* The detections the model draws its inputs from: fully visible at two
\* places, and without any visible keypoint.
DetectionPool ==
    { Detection(FullAt(Pt(0, 0))), Detection(FullAt(Pt(1, 0))), Detection(NoneVisible) }

\* ------------------------------------------------------------------ similarity
\* exp(-d) in units of 1/10000 for the squared distances of the pool.
ExpNeg(d) ==
    CASE d = 0 -> 10000
      [] d = 1 -> 3679
      [] d = 2 -> 1353
      [] d = 3 -> 498
      [] d = 4 -> 183
      [] OTHER -> 0

\* Similarities are kept as integers: v stands for v / (10000 * SimUnit).
SimUnit == Factorial(NNodes)

SqDist(p, q) == (q.x - p.x) * (q.x - p.x) + (q.y - p.y) * (q.y - p.y)

\* instance_similarity(ref_instance, query_instance)
instance_similarity(ref, query) ==
    LET ref_visible == {n \in Nodes : ref.points[n].vis}
        defined == {n \in Nodes : ref.points[n].vis /\ query.points[n].vis}
        terms == List([n \in Nodes |->
                    IF n \in defined
                    THEN ExpNeg(SqDist(ref.points[n], query.points[n]))
                    ELSE 0])
        nansum == SumSeq(terms)
    IN  IF Cardinality(ref_visible) = 0
        THEN NaN
        ELSE Num(nansum * (SimUnit \div Cardinality(ref_visible)))

\* The integer square root: the greatest r with r * r <= n.
RECURSIVE ISqrtIn(_, _, _)
ISqrtIn(n, lo, hi) ==
    IF lo >= hi THEN lo
    ELSE LET mid == (lo + hi + 1) \div 2
         IN  IF mid * mid <= n THEN ISqrtIn(n, mid, hi) ELSE ISqrtIn(n, lo, mid - 1)

ISqrt(n) == ISqrtIn(n, 0, IF n < 40000 THEN n ELSE 40000)

\* A sequence of integers in ascending order.
RECURSIVE SortAsc(_)
SortAsc(xs) ==
    IF xs = <<>> THEN <<>>
    ELSE LET AtMost(x) == x <= Head(xs)
             Above(x) == x > Head(xs)
         IN  SortAsc(SelectSeq(Tail(xs), AtMost)) \o <<Head(xs)>>
                \o SortAsc(SelectSeq(Tail(xs), Above))

\* Twice the median of a non-empty sequence of integers (the median of an
\* even number of values is the mean of the two middle ones).
Median2(xs) ==
    LET sorted == SortAsc(xs)
        n == Len(xs)
    IN  IF n % 2 = 1 THEN 2 * sorted[(n + 1) \div 2]
        ELSE sorted[n \div 2] + sorted[n \div 2 + 1]

\* instance.centroid = np.nanmedian(points, axis=0): the median of the visible
\* keypoints on each axis, in half units; NaN on both axes when no keypoint
\* is visible.
centroid(inst) ==
    LET IsVisible(p) == p.vis
        visible == SelectSeq(inst.points, IsVisible)
    IN  IF visible = <<>> THEN [nan |-> TRUE, x2 |-> 0, y2 |-> 0]
        ELSE [nan |-> FALSE,
              x2 |-> Median2(List([k \in 1..Len(visible) |-> visible[k].x])),
              y2 |-> Median2(List([k \in 1..Len(visible) |-> visible[k].y]))]

\* centroid_distance(ref_instance, query_instance): -np.linalg.norm(a - b),
\* the norm rounded down to 1/200.  The cache only saves recomputing the
\* centroid of an instance object, so the value is that of a fresh computation.
centroid_distance(ref, query) ==
    LET a == centroid(ref)
        b == centroid(query)
        d2 == (a.x2 - b.x2) * (a.x2 - b.x2) + (a.y2 - b.y2) * (a.y2 - b.y2)
    IN  IF a.nan \/ b.nan THEN NaN
        ELSE Num(0 - ISqrt(d2 * 10000) * 50 * SimUnit)

\* "if instance not in cache: cache[instance] = instance.centroid".  An
\* instance object is known by a key: instances hash by identity.
CachePut(memo, key, inst) ==
    IF key \in DOMAIN memo THEN memo ELSE memo @@ (key :> centroid(inst))

\* The cache after scoring objects one after the other; each is a record of
\* the key and the instance.
RECURSIVE CachePutAll(_, _)
CachePutAll(memo, objects) ==
    IF objects = <<>> THEN memo
    ELSE CachePutAll(CachePut(memo, Head(objects).key, Head(objects).inst), Tail(objects))

\* centroid_distance(ref_instance, query_instance) without the norm: the
\* difference of the centroids along x.
centroid_distance_signed(memo, ref, query) ==
    LET after == CachePutAll(memo, <<ref, query>>)
        a == after[ref.key]
        b == after[query.key]
    IN  [value |-> IF a.nan \/ b.nan THEN NaN ELSE Num(0 - (a.x2 - b.x2) * 100 * SimUnit),
         cache |-> after]

\* centroid_distance(ref_instance, query_instance, cache) on the objects ref
\* and query: the value returned and the cache it leaves.
centroid_distance_cached(memo, ref, query) ==
    LET after == CachePutAll(memo, <<ref, query>>)
        a == after[ref.key]
        b == after[query.key]
        d2 == (a.x2 - b.x2) * (a.x2 - b.x2) + (a.y2 - b.y2) * (a.y2 - b.y2)
    IN  [value |-> IF a.nan \/ b.nan THEN NaN
                   ELSE Num(0 - ISqrt(d2 * 10000) * 50 * SimUnit),
         cache |-> after]

\* A bounding box with nanmin in the place of nanmax: both corners are the
\* lower one.
bounding_box_min_only(inst) ==
    LET IsVisible(p) == p.vis
        visible == SelectSeq(inst.points, IsVisible)
        xs == SortAsc(List([k \in 1..Len(visible) |-> visible[k].x]))
        ys == SortAsc(List([k \in 1..Len(visible) |-> visible[k].y]))
    IN  IF visible = <<>> THEN [nan |-> TRUE, y1 |-> 0, x1 |-> 0, y2 |-> 0, x2 |-> 0]
        ELSE [nan |-> FALSE, y1 |-> ys[1], x1 |-> xs[1], y2 |-> ys[1], x2 |-> xs[1]]

\* instance.bounding_box = np.concatenate([np.nanmin(points, axis=0)[::-1],
\* np.nanmax(points, axis=0)[::-1]]): (y1, x1, y2, x2) over the visible
\* keypoints; NaN four times when no keypoint is visible.
bounding_box(inst) ==
    LET IsVisible(p) == p.vis
        visible == SelectSeq(inst.points, IsVisible)
        xs == SortAsc(List([k \in 1..Len(visible) |-> visible[k].x]))
        ys == SortAsc(List([k \in 1..Len(visible) |-> visible[k].y]))
    IN  IF visible = <<>> THEN [nan |-> TRUE, y1 |-> 0, x1 |-> 0, y2 |-> 0, x2 |-> 0]
        ELSE [nan |-> FALSE, y1 |-> ys[1], x1 |-> xs[1],
              y2 |-> ys[Len(ys)], x2 |-> xs[Len(xs)]]

\* The area of a box, and of what two boxes have in common.
BoxArea(a) == (a.x2 - a.x1) * (a.y2 - a.y1)
Overlap(lo1, hi1, lo2, hi2) ==
    LET lo == IF lo1 > lo2 THEN lo1 ELSE lo2
        hi == IF hi1 < hi2 THEN hi1 ELSE hi2
    IN  IF hi > lo THEN hi - lo ELSE 0
IntersectionArea(a, b) == Overlap(a.x1, a.x2, b.x1, b.x2) * Overlap(a.y1, a.y2, b.y1, b.y2)

\* utils.compute_iou(a, b): the area the two boxes have in common over the
\* area of their union, rounded down to 1/(10000 * SimUnit); NaN when a box is
\* NaN and when the union has no area (0.0 / 0.0).
compute_iou(a, b) ==
    LET intersection == IntersectionArea(a, b)
        union == BoxArea(a) + BoxArea(b) - intersection
    IN  IF a.nan \/ b.nan \/ union = 0 THEN NaN
        ELSE Num((intersection * 10000 * SimUnit) \div union)

\* "if instance not in cache: cache[instance] = instance.bounding_box"
BoxCachePut(memo, key, inst) ==
    IF key \in DOMAIN memo THEN memo ELSE memo @@ (key :> bounding_box(inst))

\* instance_iou(ref_instance, query_instance, cache) on the objects ref and
\* query: the value returned and the cache it leaves.
instance_iou(memo, ref, query) ==
    LET after == BoxCachePut(BoxCachePut(memo, ref.key, ref.inst), query.key, query.inst)
    IN  [value |-> compute_iou(after[ref.key], after[query.key]), cache |-> after]

\* ------------------------------------------------------------------ solvers
\* A cost matrix is a sequence of rows, each a sequence of floats.
NRows(M) == Len(M)
NCols(M) == IF Len(M) = 0 THEN 0 ELSE Len(M[1])
Cells(M) == {<<i, j>> : i \in 1..NRows(M), j \in 1..NCols(M)}

\* The order np.argsort sorts floats in: numbers ascending, then inf, then NaN.
SortsBefore(a, b) ==
    \/ IsNum(a) /\ IsNum(b) /\ a.v < b.v
    \/ IsNum(a) /\ ~IsNum(b)
    \/ IsInf(a) /\ IsNaN(b)

\* np.argsort(cost_matrix, axis=None) followed by np.unravel_index lists the
\* cells in ascending order of cost; the default sort kind is not stable, so
\* among cells of equal cost any may come first.  The head of what is left of
\* that list is therefore any cell left of least cost.
Lowest(M, unassigned_edges) ==
    {e \in unassigned_edges :
        \A f \in unassigned_edges : ~SortsBefore(M[f[1]][f[2]], M[e[1]][e[2]])}

\* The deletion test of greedy_matching with the column comparison left out.
SharesRowOnly(e, f) == f[1] = e[1]

\* "Remove all other edges that contain either node": the test of the deletion.
SharesNode(e, f) == f[1] = e[1] \/ f[2] = e[2]

\* The while loop of greedy_matching: pop the head, record it, delete the
\* edges sharing a node with it; the edge lists this can produce.
RECURSIVE GreedyAssign(_, _)
GreedyAssign(M, unassigned_edges) ==
    IF unassigned_edges = {} THEN {<<>>}
    ELSE UNION {{<<e>> \o rest :
                    rest \in GreedyAssign(M, {f \in unassigned_edges \ {e} :
                                                ~SharesNode(e, f)})} :
                e \in Lowest(M, unassigned_edges)}

\* greedy_matching with a threshold: the cells of cost inf are never edges.
greedy_matching_below_inf(M) ==
    GreedyAssign(M, {c \in Cells(M) : ~IsInf(M[c[1]][c[2]])})

\* greedy_matching(cost_matrix): the edge lists it can return.
greedy_matching(M) == GreedyAssign(M, Cells(M))

\* cost_matrix[np.isinf(cost_matrix)] = 0
InfToZero(M) ==
    List([i \in 1..NRows(M) |-> List([j \in 1..NCols(M) |->
        IF IsInf(M[i][j]) THEN Num(0) ELSE M[i][j]])])

\* The injective maps from 1..k into 1..n, as sequences.
Injections(k, n) ==
    {f \in [1..k -> 1..n] : \A a, b \in 1..k : a # b => f[a] # f[b]}

\* An assignment of min(rows, cols) cells, no two in a row or column, listed
\* by ascending row as linear_sum_assignment returns them.
RECURSIVE RowsAscending(_, _)
RowsAscending(g, rows) ==
    IF rows = {} THEN <<>>
    ELSE LET r == CHOOSE x \in rows : \A y \in rows : x <= y
             c == CHOOSE j \in 1..Len(g) : g[j] = r
         IN  <<<<r, c>>>> \o RowsAscending(g, rows \ {r})

FullAssignments(M) ==
    IF NRows(M) <= NCols(M)
    THEN {List([i \in 1..NRows(M) |-> <<i, f[i]>>]) :
            f \in Injections(NRows(M), NCols(M))}
    ELSE {RowsAscending(g, Range(g)) : g \in Injections(NCols(M), NRows(M))}

TotalCost(M, edges) ==
    SumSeq(List([e \in 1..Len(edges) |-> M[edges[e][1]][edges[e][2]].v]))

\* An assignment linear_sum_assignment may return: one without an inf edge
\* (it takes an inf entry for a cell that cannot be assigned).
Feasible(M, edges) == \A e \in 1..Len(edges) : IsNum(M[edges[e][1]][edges[e][2]])

\* linear_sum_assignment that maximises the total cost.
linear_sum_assignment_max(M) ==
    {a \in FullAssignments(M) :
        /\ Feasible(M, a)
        /\ \A b \in FullAssignments(M) :
              Feasible(M, b) => TotalCost(M, a) >= TotalCost(M, b)}

\* linear_sum_assignment(cost_matrix): any assignment of least total cost.
linear_sum_assignment(M) ==
    {a \in FullAssignments(M) :
        /\ Feasible(M, a)
        /\ \A b \in FullAssignments(M) :
              Feasible(M, b) => TotalCost(M, a) <= TotalCost(M, b)}

\* hungarian_matching without the replacement of inf entries.
hungarian_matching_keeps_inf(M) == linear_sum_assignment(M)

\* hungarian_matching(cost_matrix): the edge lists it can return.
hungarian_matching(M) == linear_sum_assignment(InfToZero(M))

\* ------------------------------------------------------------------ state
VARIABLES
    cfg,                    \* the Tracker's attributes set at construction
    track_matching_queue,   \* Tracker.track_matching_queue, oldest entry first
    spawned_tracks,         \* Tracker.spawned_tracks
    call_ts,                \* the timestep used by each track call so far
    last,                   \* the arguments, steps and result of the last track call
    cost_matrix,            \* the cost matrix last handed to a solver
    assignments,            \* the edge list that solver returned
    solved,                 \* the solver that ran: "none", "greedy", "hungarian"
                            \* or, when both ran on cost_matrix, "both"
    assignments_opt,        \* the edge list of hungarian_matching when both ran
    cache,                  \* the dict that is the default of centroid_distance's
                            \* cache argument: instance object -> centroid
    threads                 \* for each caller thread, where its track call stands
                            \* and the call's local variables

vars == <<cfg, track_matching_queue, spawned_tracks, call_ts, last,
          cost_matrix, assignments, solved, assignments_opt, cache, threads>>

\* ------------------------------------------------------------------ Tracker
\* str(n) of a natural number: its decimal digits, most significant first.
RECURSIVE DecimalDigits(_)
DecimalDigits(n) == IF n < 10 THEN <<n>> ELSE Append(DecimalDigits(n \div 10), n % 10)

\* f"track_{n}": the characters of the name, the digits of n after the prefix.
TrackName(n) == <<"track_">> \o DecimalDigits(n)

\* A Track named after the timestep it is spawned on.
NewTrackNamedByTimestep(t, n) == [spawned_on |-> t, name |-> TrackName(t)]

\* A Track named without the count of the Tracks spawned so far.
NewTrackUnnumbered(t, n) == [spawned_on |-> t, name |-> <<"track_">>]

\* Track(spawned_on=t, name=f"track_{len(self.spawned_tracks)}")
NewTrack(t, n) == [spawned_on |-> t, name |-> TrackName(n)]

\* A spawn that leaves self.spawned_tracks as it was.
RegisterTrackSkipped(spawned, new_track) == spawned

\* self.spawned_tracks.append(new_track)
RegisterTrack(spawned, new_track) == Append(spawned, new_track)

\* A queue entry that does not keep the image.
MatchedInstanceNoImage(t, instances_t, img) ==
    [t |-> t, instances_t |-> instances_t, img_t |-> <<>>]

\* MatchedInstance(t, instances_t, img_t)
MatchedInstance(t, instances_t, img) == [t |-> t, instances_t |-> instances_t, img_t |-> img]

\* An append that leaves the queue as it was.
DequeAppendDropsEntry(queue, maxlen, entry) == queue

\* A bounded append that evicts only once the queue is longer than maxlen.
DequeAppendOffByOne(queue, maxlen, entry) ==
    IF Len(queue) > maxlen THEN Append(Tail(queue), entry) ELSE Append(queue, entry)

\* deque(maxlen=track_window).append(entry) with the bound left out.
DequeAppendUnbounded(queue, maxlen, entry) == Append(queue, entry)

\* A bounded append that, when full, refuses the new entry and keeps the old.
DequeAppendKeepsOldest(queue, maxlen, entry) ==
    IF Len(queue) >= maxlen THEN queue ELSE Append(queue, entry)

\* deque(maxlen=track_window).append(entry)
DequeAppend(queue, maxlen, entry) ==
    IF maxlen = 0 THEN queue
    ELSE IF Len(queue) = maxlen THEN Append(Tail(queue), entry)
    ELSE Append(queue, entry)

\* Timestep inference from the oldest queue entry in place of the newest.
InferTimestepOldest(queue, t_arg) ==
    IF t_arg # <<>> THEN t_arg[1]
    ELSE IF Len(queue) > 0 THEN queue[1].t + 1
    ELSE 0

\* "Infer timestep if not provided."
InferTimestep(queue, t_arg) ==
    IF t_arg # <<>> THEN t_arg[1]
    ELSE IF Len(queue) > 0 THEN queue[Len(queue)].t + 1
    ELSE 0

RECURSIVE Flatten(_)
Flatten(ss) == IF ss = <<>> THEN <<>> ELSE Head(ss) \o Flatten(Tail(ss))

\* get_candidates keeping only the instances with more than min_points
\* visible keypoints.
SimpleCandidatesStrict(min_points, queue) ==
    LET Enough(inst) == n_visible_points(inst.points) > min_points
    IN  Flatten(List([q \in 1..Len(queue) |-> SelectSeq(queue[q].instances_t, Enough)]))

\* SimpleCandidateMaker.get_candidates(track_matching_queue)
SimpleCandidates(min_points, queue) ==
    LET Enough(inst) == n_visible_points(inst.points) >= min_points
    IN  Flatten(List([q \in 1..Len(queue) |-> SelectSeq(queue[q].instances_t, Enough)]))

\* What a step of track that can raise comes to: the exception raised, if
\* any, and the candidates returned otherwise.
Returned(candidates) == [raised |-> <<>>, candidates |-> candidates, flow_log |-> <<>>]
Raised(exception) == [raised |-> <<exception>>, candidates |-> <<>>, flow_log |-> <<>>]

\* The displacements along x that the optical flow can report for an instance.
FlowShifts == {0, 1}

\* ShiftedInstance.from_instance(ref, new_points_array=pts, shift_score=...)
\* after pts[~found] = np.nan: the found keypoints displaced, the others
\* missing (a keypoint missing in ref stays NaN wherever it is displaced to).
\* The flow error of every found keypoint is taken as 0.
ShiftedInstance(ref, found, dx) ==
    [points |-> List([n \in Nodes |->
                    IF n \in found /\ ref.points[n].vis
                    THEN Pt(ref.points[n].x + dx, ref.points[n].y)
                    ELSE Missing]),
     track |-> ref.track,
     shift_score |-> Num(0)]

\* The test on a projected instance with >= in place of >.
KeepShiftedInclusive(found, min_shifted_points) == Cardinality(found) >= min_shifted_points

\* "if found.sum() > min_shifted_points"
KeepShifted(found, min_shifted_points) == Cardinality(found) > min_shifted_points

\* flow_shift_instances(ref_instances, ref_img, new_img, min_shifted_points):
\* cv2.calcOpticalFlowPyrLK reports any set of keypoints as found and any of
\* the displacements.  Each outcome is the list of ShiftedInstances with the
\* log of what the flow found for every reference instance.
RECURSIVE flow_shift_instances(_, _)
flow_shift_instances(ref_instances, min_shifted_points) ==
    IF ref_instances = <<>> THEN {Returned(<<>>)}
    ELSE LET ref == Head(ref_instances)
         IN  {[raised |-> <<>>,
               candidates |->
                   (IF KeepShifted(found, min_shifted_points)
                    THEN <<ShiftedInstance(ref, found, dx)>> ELSE <<>>) \o rest.candidates,
               flow_log |-> <<[ref |-> ref, found |-> found]>> \o rest.flow_log] :
                 found \in SUBSET Nodes, dx \in FlowShifts,
                 rest \in flow_shift_instances(Tail(ref_instances), min_shifted_points)}

\* FlowCandidateMaker.get_candidates(track_matching_queue, t, img) from queue
\* entry q on.  ref_img.ndim raises AttributeError for an entry stored without
\* an image, and cv2 raises on a current image that is None.
RECURSIVE FlowCandidates(_, _, _, _)
FlowCandidates(min_points, queue, q, img) ==
    IF q > Len(queue) THEN {Returned(<<>>)}
    ELSE IF Len(queue[q].instances_t) = 0 THEN FlowCandidates(min_points, queue, q + 1, img)
    ELSE IF queue[q].img_t = <<>> THEN {Raised("AttributeError")}
    ELSE IF img = <<>> THEN {Raised("cv2.error")}
    ELSE {IF rest.raised # <<>> THEN rest
          ELSE [raised |-> <<>>,
                candidates |-> shifted.candidates \o rest.candidates,
                flow_log |-> shifted.flow_log \o rest.flow_log] :
              shifted \in flow_shift_instances(queue[q].instances_t, min_points),
              rest \in FlowCandidates(min_points, queue, q + 1, img)}

\* The objects of a list of instances: object k of the list made in call n
\* has the key <<kind, n, k>>.
Objects(kind, n, instances) ==
    List([k \in 1..Len(instances) |-> [key |-> <<kind, n, k>>, inst |-> instances[k]]])

\* The objects SimpleCandidateMaker.get_candidates returns: they are the
\* objects of the queue, entry q being the output of call first + q - 1.
SimpleCandidateObjects(min_points, queue, first) ==
    LET Enough(object) == n_visible_points(object.inst.points) >= min_points
    IN  Flatten(List([q \in 1..Len(queue) |->
            SelectSeq(Objects("out", first + q - 1, queue[q].instances_t), Enough)]))

\* The objects that are the candidates of call n; a FlowCandidateMaker makes
\* new ones in every call.
CandidateObjects(c, queue, n, candidates) ==
    IF c.candidate_maker = "simple"
    THEN SimpleCandidateObjects(c.min_points, queue, n - Len(queue))
    ELSE Objects("shifted", n, candidates)

\* candidate_maker.get_candidates(track_matching_queue=..., t=t, img=img): the
\* outcomes it can have.  A candidate maker that is not one of the classes
\* (a name, say) has no get_candidates.
GetCandidates(c, queue, t, img) ==
    IF c.candidate_maker = "simple"
    THEN {Returned(SimpleCandidates(c.min_points, queue))}
    ELSE IF c.candidate_maker = "flow"
    THEN FlowCandidates(c.min_points, queue, 1, img)
    ELSE {Raised("AttributeError")}

\* A test of the candidate pool that always passes.
HasCandidatesAlways(candidates) == TRUE

\* "if len(candidate_instances) > 0"
HasCandidates(candidates) == Len(candidates) > 0

\* list(candidate_instances_by_track.keys()): the tracks of the candidates in
\* order of first appearance.
RECURSIVE CandidateTracks(_)
CandidateTracks(candidates) ==
    IF candidates = <<>> THEN <<>>
    ELSE LET init == CandidateTracks(SubSeq(candidates, 1, Len(candidates) - 1))
             tr == candidates[Len(candidates)].track
         IN  IF tr \in Range(init) THEN init ELSE Append(init, tr)

\* candidate_instances_by_track[track]
TrackInstances(candidates, tr) ==
    LET OfTrack(inst) == inst.track = tr
    IN  SelectSeq(candidates, OfTrack)

\* np.argmax over a list of floats: the first NaN if there is one, else the
\* first greatest number.
ArgMax(xs) ==
    IF \E k \in 1..Len(xs) : IsNaN(xs[k])
    THEN CHOOSE k \in 1..Len(xs) : IsNaN(xs[k]) /\ \A l \in 1..(k - 1) : ~IsNaN(xs[l])
    ELSE CHOOSE k \in 1..Len(xs) :
            /\ \A l \in 1..Len(xs) : xs[l].v <= xs[k].v
            /\ \A l \in 1..(k - 1) : xs[l].v < xs[k].v

\* similarity_function(untracked_instance, candidate_instance)
Similarity(c, untracked_instance, candidate_instance) ==
    IF c.similarity_function = "centroid_distance"
    THEN centroid_distance(untracked_instance, candidate_instance)
    ELSE instance_similarity(untracked_instance, candidate_instance)

\* matching_candidates[i][j]: the best scoring candidate of track j for detection i.
BestCandidate(c, untracked_instance, track_instances) ==
    LET track_matching_similarities ==
            List([k \in 1..Len(track_instances) |->
                    Similarity(c, untracked_instance, track_instances[k])])
        best_ind == ArgMax(track_matching_similarities)
    IN  [inst |-> track_instances[best_ind],
         similarity |-> track_matching_similarities[best_ind],
         best_ind |-> best_ind]

MatchingCandidates(c, untracked, candidates) ==
    LET tracks == CandidateTracks(candidates)
    IN  List([i \in 1..Len(untracked) |-> List([j \in 1..Len(tracks) |->
            BestCandidate(c, untracked[i], TrackInstances(candidates, tracks[j]))])])

\* cost = -matching_similarities, the NaN entries left as they are.
CostEntryKeepsNaN(similarity) == Neg(similarity)

\* cost = -matching_similarities; cost[np.isnan(cost)] = np.inf
CostEntry(similarity) == IF IsNaN(similarity) THEN Inf ELSE Neg(similarity)

CostMatrix(best) ==
    List([i \in 1..Len(best) |->
            List([j \in 1..Len(best[i]) |-> CostEntry(best[i][j].similarity)])])

\* self.matching_function(cost)
MatchingFunction(c, M) ==
    IF c.matching_function = "greedy" THEN greedy_matching(M) ELSE hungarian_matching(M)

\* attr.evolve(instance, track=..., tracking_score=...)
Evolve(inst, track, score) == [points |-> inst.points, track |-> track, tracking_score |-> score]

\* An assignment in place (instance.track = ...; instance.tracking_score =
\* ...): the instance handed over is the one that carries the new values.
EvolveSourceAssigned(inst, track, score) == Evolve(inst, track, score)

\* attr.evolve(instance, ...) makes a new instance; the one it copies from
\* is left as it is.
EvolveSource(inst, track, score) == inst

\* untracked_instances after the outputs of the call were made from it.
RECURSIVE InputsAfter(_, _)
InputsAfter(untracked, tracked) ==
    IF tracked = <<>> THEN untracked
    ELSE LET out == Head(tracked)
         IN  InputsAfter([untracked EXCEPT ![out.ind] =
                            EvolveSource(@, out.inst.track, out.inst.tracking_score)],
                         Tail(tracked))

\* An assignment that takes the track and the score of the first candidate
\* track whatever the edge's column.
AssignMatchedFirstColumn(untracked, best, matches) ==
    List([e \in 1..Len(matches) |->
        LET i == matches[e][1]
        IN  [inst |-> Evolve(untracked[i], best[i][1].inst.track, best[i][1].similarity),
             ind |-> i, how |-> "matched"]])

\* "Assign each matched instance": one output per edge, in edge order.  Each
\* output is logged with the index of its detection and how it got its track.
AssignMatched(untracked, best, matches) ==
    List([e \in 1..Len(matches) |->
        LET i == matches[e][1]
            j == matches[e][2]
        IN  [inst |-> Evolve(untracked[i], best[i][j].inst.track, best[i][j].similarity),
             ind |-> i, how |-> "matched"]])

\* "Skip if this instance is too small to spawn a new track with", comparing
\* with <= in place of <.
TooSmallInclusive(inst, min_new_track_points) ==
    n_visible_points(inst.points) <= min_new_track_points

\* "Skip if this instance is too small to spawn a new track with."
TooSmall(inst, min_new_track_points) ==
    n_visible_points(inst.points) < min_new_track_points

\* A spawned instance that is left without its new track.
SpawnedInstanceNoTrack(inst, track_id) == Evolve(inst, <<>>, inst.tracking_score)

\* A spawned instance that is given the first Track ever spawned in place of
\* the new one.
SpawnedInstanceFirstTrack(inst, track_id) == Evolve(inst, <<1>>, inst.tracking_score)

\* attr.evolve(inst, track=new_track)
SpawnedInstance(inst, track_id) == Evolve(inst, <<track_id>>, inst.tracking_score)

\* The test of "Skip if this instance was tracked" that never skips.
WasTrackedNever(i, tracked_inds) == FALSE

\* "Skip if this instance was tracked": i in tracked_inds
WasTracked(i, tracked_inds) == i \in tracked_inds

\* A new output put at the front of tracked_instances.
AddTrackedFirst(tracked, out) == <<out>> \o tracked

\* tracked_instances.append(...)
AddTracked(tracked, out) == Append(tracked, out)

\* "Spawn a new track for each remaining untracked instance": the loop from
\* detection i on.  tracked_inds is the set of matched detection indices.
\* Each output is logged with the index of its detection and how it got its
\* track.
RECURSIVE SpawnLoop(_, _, _, _, _, _, _)
SpawnLoop(i, untracked, tracked_inds, min_new_track_points, t, spawned, tracked) ==
    IF i > Len(untracked) THEN [spawned_tracks |-> spawned, tracked |-> tracked]
    ELSE IF WasTracked(i, tracked_inds) \/ TooSmall(untracked[i], min_new_track_points)
    THEN SpawnLoop(i + 1, untracked, tracked_inds, min_new_track_points, t,
                   spawned, tracked)
    ELSE LET new_track == NewTrack(t, Len(spawned))
             out == [inst |-> SpawnedInstance(untracked[i], Len(spawned) + 1),
                     ind |-> i, how |-> "spawned"]
         IN  SpawnLoop(i + 1, untracked, tracked_inds, min_new_track_points, t,
                       RegisterTrack(spawned, new_track), AddTracked(tracked, out))

\* ------------------------------------------------------------------ inputs
\* Tracker(track_window=..., similarity_function=..., matching_function=...,
\*         min_new_track_points=...,
\*         candidate_maker=SimpleCandidateMaker(min_points=...))
\* The attributes of the Tracker that the constructor builds from its
\* arguments.  track_matching_queue is <<>> when the argument is left to its
\* default, deque(maxlen=track_window), and <<m>> when the caller passes a
\* deque(maxlen=m) of its own.
NewTracker(args) ==
    [track_window |-> args.track_window,
     similarity_function |-> args.similarity_function,
     matching_function |-> args.matching_function,
     candidate_maker |-> args.candidate_maker,
     min_points |-> args.min_points,
     min_new_track_points |-> args.min_new_track_points,
     queue_maxlen |-> IF args.track_matching_queue = <<>> THEN args.track_window
                      ELSE args.track_matching_queue[1]]

\* The value of cfg while no Tracker is constructed.
NoTracker == <<>>

\* _init_matching_queue: deque(maxlen=self.track_window) raises ValueError
\* ("maxlen must be non-negative") for a negative track_window.  It is only
\* run when the caller passes no track_matching_queue.
ConstructionRaises(args) == args.track_matching_queue = <<>> /\ args.track_window < 0

Configs ==
    {NewTracker(args) : args \in
        [track_window : 0..MaxWindow,
         similarity_function : {"instance_similarity"},
         matching_function : {"greedy", "hungarian"},
         candidate_maker : {"simple"},
         min_points : {0},
         min_new_track_points : {0, NNodes},
         track_matching_queue : {<<>>}]}

\* Trackers that score by centroid_distance, with a candidate maker that
\* takes every instance or only those with a visible keypoint.
CentroidConfigs ==
    {NewTracker(args) : args \in
        [track_window : {MaxWindow},
         similarity_function : {"centroid_distance"},
         matching_function : {"hungarian"},
         candidate_maker : {"simple"},
         min_points : {0, 1},
         min_new_track_points : {0},
         track_matching_queue : {<<>>}]}

RECURSIVE SeqsUpTo(_, _)
SeqsUpTo(S, n) ==
    IF n = 0 THEN {<<>>}
    ELSE LET shorter == SeqsUpTo(S, n - 1)
         IN  shorter \cup {Append(s, x) : s \in shorter, x \in S}

DetectionLists == SeqsUpTo(DetectionPool, MaxDet)

\* The img and t arguments of a call: both omitted, or both given.  (The
\* SimpleCandidateMaker ignores img; track only stores it in the queue entry.)
CallArgs == {[img |-> <<>>, t |-> <<>>], [img |-> <<"img">>, t |-> <<5>>]}

NoCall ==
    [untracked |-> <<>>, img |-> <<>>, t_arg |-> <<>>, t |-> 0,
     n_tracks_before |-> 0, candidates |-> <<>>, best_inds |-> <<>>,
     flow_log |-> <<>>, cache_hits |-> {}, tracked |-> <<>>, result |-> <<>>,
     raised |-> <<>>, empty_run |-> 0, gap_before |-> 0, untracked_after |-> <<>>]

\* The strategies the tracker can call.
SimilarityFunctions == {"instance_similarity", "centroid_distance"}
MatchingFunctions == {"greedy", "hungarian"}

\* ------------------------------------------------------------------ actions
Init ==
    /\ cfg \in Configs
    /\ track_matching_queue = <<>>
    /\ spawned_tracks = <<>>
    /\ call_ts = <<>>
    /\ last = NoCall
    /\ cost_matrix = <<>>
    /\ assignments = <<>>
    /\ solved = "none"
    /\ assignments_opt = <<>>
    /\ cache = <<>>
    /\ threads = <<>>

\* A track call that appends its queue entry before the step that raises.
TrackRaisesAfterAppend(untracked, img, t_arg, t, exception, hits, memo) ==
    /\ last' = [NoCall EXCEPT !.untracked = untracked, !.untracked_after = untracked,
                              !.img = img, !.t_arg = t_arg,
                              !.t = t, !.n_tracks_before = Len(spawned_tracks),
                              !.cache_hits = hits, !.raised = <<exception>>]
    /\ cost_matrix' = <<>>
    /\ assignments' = <<>>
    /\ solved' = "none"
    /\ cache' = memo
    /\ track_matching_queue' =
           DequeAppend(track_matching_queue, cfg.queue_maxlen, MatchedInstance(t, <<>>, img))
    /\ UNCHANGED <<spawned_tracks, call_ts>>

\* A track call that raises: nothing of the tracker was written before the
\* candidates, the scores and the matches are there, so only the log and the
\* scorer's cache change.
TrackRaises(untracked, img, t_arg, t, exception, hits, memo) ==
    /\ last' = [NoCall EXCEPT !.untracked = untracked, !.untracked_after = untracked,
                              !.img = img, !.t_arg = t_arg,
                              !.t = t, !.n_tracks_before = Len(spawned_tracks),
                              !.cache_hits = hits, !.raised = <<exception>>]
    /\ cost_matrix' = <<>>
    /\ assignments' = <<>>
    /\ solved' = "none"
    /\ cache' = memo
    /\ UNCHANGED <<track_matching_queue, spawned_tracks, call_ts>>

\* Tracker.track(untracked_instances, img, t)
Track(untracked, img, t_arg) ==
    /\ cfg # NoTracker
    /\ Len(call_ts) < MaxCalls
    /\ LET queue == track_matching_queue
           t == InferTimestep(queue, t_arg)
       IN  \E got \in (IF Len(untracked) > 0 THEN GetCandidates(cfg, queue, t, img)
                       ELSE {Returned(<<>>)}) :
           LET candidates == got.candidates
               matching == Len(untracked) > 0 /\ HasCandidates(candidates)
               n == Len(call_ts) + 1
               memoised == matching /\ cfg.similarity_function = "centroid_distance"
               candidate_objects == CandidateObjects(cfg, queue, n, candidates)
               \* the candidates whose centroid the scorer finds in its cache
               hits == IF memoised
                       THEN {candidate_objects[k].key : k \in 1..Len(candidate_objects)}
                                \cap DOMAIN cache
                       ELSE {}
               memo == IF memoised
                       THEN CachePutAll(cache, Objects("in", n, untracked)
                                                  \o candidate_objects)
                       ELSE cache
           IN  IF got.raised # <<>>
               THEN TrackRaises(untracked, img, t_arg, t, got.raised[1], hits, memo)
               ELSE IF matching /\ cfg.similarity_function \notin SimilarityFunctions
               THEN TrackRaises(untracked, img, t_arg, t, "TypeError", hits, memo)
               ELSE IF matching /\ cfg.matching_function \notin MatchingFunctions
               THEN TrackRaises(untracked, img, t_arg, t, "TypeError", hits, memo)
               ELSE
           LET best == IF matching THEN MatchingCandidates(cfg, untracked, candidates)
                       ELSE <<>>
               cost == CostMatrix(best)
           IN  \E matches \in (IF matching THEN MatchingFunction(cfg, cost) ELSE {<<>>}) :
             LET matched == AssignMatched(untracked, best, matches)
                 tracked_inds == {matches[e][1] : e \in 1..Len(matches)}
                 sp == SpawnLoop(1, untracked, tracked_inds, cfg.min_new_track_points,
                                 t, spawned_tracks, matched)
                 tracked_instances ==
                     List([k \in 1..Len(sp.tracked) |-> sp.tracked[k].inst])
             IN  /\ spawned_tracks' = sp.spawned_tracks
                 /\ track_matching_queue' =
                        DequeAppend(queue, cfg.queue_maxlen,
                                    MatchedInstance(t, tracked_instances, img))
                 /\ call_ts' = Append(call_ts, t)
                 /\ last' = [untracked |-> untracked, img |-> img, t_arg |-> t_arg,
                             t |-> t, n_tracks_before |-> Len(spawned_tracks),
                             candidates |-> IF Len(untracked) > 0
                                            THEN <<candidates>> ELSE <<>>,
                             best_inds |->
                                 List([i \in 1..Len(best) |->
                                    List([j \in 1..Len(best[i]) |-> best[i][j].best_ind])]),
                             flow_log |-> got.flow_log,
                             cache_hits |-> hits,
                             tracked |-> sp.tracked,
                             result |-> tracked_instances,
                             raised |-> <<>>,
                             \* the calls with an empty detection list in a
                             \* row, up to this call and up to the one before
                             empty_run |-> IF untracked = <<>>
                                           THEN last.empty_run + 1 ELSE 0,
                             gap_before |-> last.empty_run,
                             untracked_after |-> InputsAfter(untracked, sp.tracked)]
                 /\ cost_matrix' = cost
                 /\ assignments' = matches
                 /\ solved' = IF matching THEN cfg.matching_function ELSE "none"
                 /\ cache' = memo
    /\ UNCHANGED <<cfg, assignments_opt, threads>>

Next == \E untracked \in DetectionLists, args \in CallArgs :
            Track(untracked, args.img, args.t)

Spec == Init /\ [][Next]_vars

\* Calls that all leave img and t out.
NextOmitted == \E untracked \in DetectionLists : Track(untracked, <<>>, <<>>)

SpecOmitted == Init /\ [][NextOmitted]_vars

\* The same tracker configured with centroid_distance.
InitCentroid ==
    /\ cfg \in CentroidConfigs
    /\ track_matching_queue = <<>>
    /\ spawned_tracks = <<>>
    /\ call_ts = <<>>
    /\ last = NoCall
    /\ cost_matrix = <<>>
    /\ assignments = <<>>
    /\ solved = "none"
    /\ assignments_opt = <<>>
    /\ cache = <<>>
    /\ threads = <<>>

SpecCentroid == InitCentroid /\ [][Next]_vars

\* Trackers with a FlowCandidateMaker(min_points=...).
FlowConfigs ==
    {NewTracker(args) : args \in
        [track_window : {MaxWindow},
         similarity_function : {"instance_similarity"},
         matching_function : {"greedy"},
         candidate_maker : {"flow"},
         min_points : {0, 1},
         min_new_track_points : {0},
         track_matching_queue : {<<>>}]}

InitFlow ==
    /\ cfg \in FlowConfigs
    /\ track_matching_queue = <<>>
    /\ spawned_tracks = <<>>
    /\ call_ts = <<>>
    /\ last = NoCall
    /\ cost_matrix = <<>>
    /\ assignments = <<>>
    /\ solved = "none"
    /\ assignments_opt = <<>>
    /\ cache = <<>>
    /\ threads = <<>>

\* The calls made on them: at most one detection a call.
NextFlow == \E untracked \in SeqsUpTo(DetectionPool, 1), args \in CallArgs :
                Track(untracked, args.img, args.t)

SpecFlow == InitFlow /\ [][NextFlow]_vars

\* Construction: the arguments a caller may pass, with at most one strategy
\* that is not one of the module's (its name instead of the function, say).
Strategies ==
    {[similarity_function |-> "instance_similarity", matching_function |-> "greedy",
      candidate_maker |-> "simple"],
     [similarity_function |-> "unknown", matching_function |-> "greedy",
      candidate_maker |-> "simple"],
     [similarity_function |-> "instance_similarity", matching_function |-> "unknown",
      candidate_maker |-> "simple"],
     [similarity_function |-> "instance_similarity", matching_function |-> "greedy",
      candidate_maker |-> "unknown"]}

ConstructorArgs ==
    {[track_window |-> w,
      similarity_function |-> st.similarity_function,
      matching_function |-> st.matching_function,
      candidate_maker |-> st.candidate_maker,
      min_points |-> 0,
      min_new_track_points |-> 0,
      track_matching_queue |-> queue] :
        w \in {0 - 1, 1}, st \in Strategies, queue \in {<<>>, <<1>>}}

InitBuild ==
    /\ cfg = NoTracker
    /\ track_matching_queue = <<>>
    /\ spawned_tracks = <<>>
    /\ call_ts = <<>>
    /\ last = NoCall
    /\ cost_matrix = <<>>
    /\ assignments = <<>>
    /\ solved = "none"
    /\ assignments_opt = <<>>
    /\ cache = <<>>
    /\ threads = <<>>

\* Tracker(track_window=..., similarity_function=..., ...): attrs stores the
\* arguments as they are, there is no validator.
Construct(args) ==
    /\ cfg = NoTracker
    /\ IF ConstructionRaises(args)
       THEN /\ last' = [NoCall EXCEPT !.raised = <<"ValueError">>]
            /\ UNCHANGED cfg
       ELSE /\ cfg' = NewTracker(args)
            /\ last' = NoCall
    /\ UNCHANGED <<track_matching_queue, spawned_tracks, call_ts, cost_matrix,
                   assignments, solved, assignments_opt, cache, threads>>

NextBuild ==
    \/ \E args \in ConstructorArgs : Construct(args)
    \/ \E untracked \in SeqsUpTo(DetectionPool, 1), args \in CallArgs :
            Track(untracked, args.img, args.t)

SpecBuild == InitBuild /\ [][NextBuild]_vars

\* ------------------------------------------------------------------ two callers
\* track called from several threads on one Tracker.  The interpreter can
\* switch threads between any two statements of the spawn loop; the part of
\* track before it only reads the tracker and is taken in one step.
NThreads == 2
ThreadIds == 1..NThreads

Idle == [pc |-> "idle"]

ConcurrentConfigs ==
    {NewTracker(args) : args \in
        [track_window : {0, 1},
         similarity_function : {"instance_similarity"},
         matching_function : {"greedy"},
         candidate_maker : {"simple"},
         min_points : {0},
         min_new_track_points : {0},
         track_matching_queue : {<<>>}]}

InitConcurrent ==
    /\ cfg \in ConcurrentConfigs
    /\ track_matching_queue = <<>>
    /\ spawned_tracks = <<>>
    /\ call_ts = <<>>
    /\ last = NoCall
    /\ cost_matrix = <<>>
    /\ assignments = <<>>
    /\ solved = "none"
    /\ assignments_opt = <<>>
    /\ cache = <<>>
    /\ threads = [th \in ThreadIds |-> Idle]

\* A thread is inside track.
InCall(th) == threads[th].pc \notin {"idle", "done"}

\* track up to "Spawn a new track for each remaining untracked instance":
\* the timestep, the candidates, the matches and the matched outputs.
TrackBegin(th, untracked) ==
    /\ threads[th].pc = "idle"
    /\ LET queue == track_matching_queue
           t == InferTimestep(queue, <<>>)
       IN  \E got \in (IF Len(untracked) > 0 THEN GetCandidates(cfg, queue, t, <<>>)
                       ELSE {Returned(<<>>)}) :
           LET candidates == got.candidates
               matching == Len(untracked) > 0 /\ HasCandidates(candidates)
               best == IF matching THEN MatchingCandidates(cfg, untracked, candidates)
                       ELSE <<>>
           IN  \E matches \in (IF matching THEN MatchingFunction(cfg, CostMatrix(best))
                               ELSE {<<>>}) :
                 threads' = [threads EXCEPT ![th] =
                    [pc |-> "spawn", untracked |-> untracked, t |-> t, i |-> 1,
                     tracked_inds |-> {matches[e][1] : e \in 1..Len(matches)},
                     tracked |-> AssignMatched(untracked, best, matches),
                     new_track |-> <<>>,
                     overlapped |-> \E other \in ThreadIds \ {th} : InCall(other)]]
    /\ UNCHANGED <<cfg, track_matching_queue, spawned_tracks, call_ts, last, cost_matrix,
                   assignments, solved, assignments_opt, cache>>

\* The head of the spawn loop up to
\* new_track = Track(spawned_on=t, name=f"track_{len(self.spawned_tracks)}").
SpawnNewTrack(th) ==
    /\ threads[th].pc = "spawn"
    /\ LET l == threads[th]
       IN  threads' = [threads EXCEPT ![th] =
              IF l.i > Len(l.untracked) THEN [l EXCEPT !.pc = "append"]
              ELSE IF WasTracked(l.i, l.tracked_inds)
                        \/ TooSmall(l.untracked[l.i], cfg.min_new_track_points)
              THEN [l EXCEPT !.i = l.i + 1]
              ELSE [l EXCEPT !.pc = "register",
                             !.new_track = <<NewTrack(l.t, Len(spawned_tracks))>>]]
    /\ UNCHANGED <<cfg, track_matching_queue, spawned_tracks, call_ts, last, cost_matrix,
                   assignments, solved, assignments_opt, cache>>

\* self.spawned_tracks.append(new_track);
\* tracked_instances.append(attr.evolve(inst, track=new_track))
SpawnRegister(th) ==
    /\ threads[th].pc = "register"
    /\ LET l == threads[th]
           out == [inst |-> SpawnedInstance(l.untracked[l.i], Len(spawned_tracks) + 1),
                   ind |-> l.i, how |-> "spawned"]
       IN  /\ spawned_tracks' = RegisterTrack(spawned_tracks, l.new_track[1])
           /\ threads' = [threads EXCEPT ![th] =
                  [l EXCEPT !.pc = "spawn", !.i = l.i + 1, !.new_track = <<>>,
                            !.tracked = AddTracked(l.tracked, out)]]
    /\ UNCHANGED <<cfg, track_matching_queue, call_ts, last, cost_matrix,
                   assignments, solved, assignments_opt, cache>>

\* self.track_matching_queue.append(MatchedInstance(t, tracked_instances, img));
\* return tracked_instances
TrackEnd(th) ==
    /\ threads[th].pc = "append"
    /\ LET l == threads[th]
           tracked_instances == List([k \in 1..Len(l.tracked) |-> l.tracked[k].inst])
       IN  /\ track_matching_queue' =
                  DequeAppend(track_matching_queue, cfg.queue_maxlen,
                              MatchedInstance(l.t, tracked_instances, <<>>))
           /\ call_ts' = Append(call_ts, l.t)
           /\ threads' = [threads EXCEPT ![th] = [l EXCEPT !.pc = "done"]]
    /\ UNCHANGED <<cfg, spawned_tracks, last, cost_matrix,
                   assignments, solved, assignments_opt, cache>>

NextConcurrent ==
    \E th \in ThreadIds :
        \/ \E untracked \in DetectionLists : TrackBegin(th, untracked)
        \/ SpawnNewTrack(th)
        \/ SpawnRegister(th)
        \/ TrackEnd(th)

SpecConcurrent == InitConcurrent /\ [][NextConcurrent]_vars

\* ------------------------------------------------------------------ solvers alone
\* The solvers as pure functions: a cost matrix is drawn, one solver runs.
CostValues == {Num(0 - 1), Num(1), Inf}

Matrices(n, m) == {List([i \in 1..n |-> List(row[i])]) : row \in [1..n -> [1..m -> CostValues]]}

CostMatrices == UNION {Matrices(n, m) : n \in 1..MaxSide, m \in 1..MaxSide}

DefaultConfig ==
    NewTracker([track_window |-> 0, similarity_function |-> "instance_similarity",
                matching_function |-> "greedy", candidate_maker |-> "simple",
                min_points |-> 0, min_new_track_points |-> 0,
                track_matching_queue |-> <<>>])

InitSolver ==
    /\ cfg = DefaultConfig
    /\ track_matching_queue = <<>>
    /\ spawned_tracks = <<>>
    /\ call_ts = <<>>
    /\ last = NoCall
    /\ cost_matrix \in CostMatrices
    /\ assignments = <<>>
    /\ solved = "none"
    /\ assignments_opt = <<>>
    /\ cache = <<>>
    /\ threads = <<>>

\* greedy_matching(cost_matrix)
RunGreedy ==
    /\ solved = "none"
    /\ assignments' \in greedy_matching(cost_matrix)
    /\ solved' = "greedy"
    /\ UNCHANGED <<cfg, track_matching_queue, spawned_tracks, call_ts, last, cost_matrix,
                   assignments_opt, cache, threads>>

\* hungarian_matching(cost_matrix); cost_matrix keeps the matrix as it was
\* handed over, before the function overwrites its inf entries.
RunHungarian ==
    /\ solved = "none"
    /\ assignments' \in hungarian_matching(cost_matrix)
    /\ solved' = "hungarian"
    /\ UNCHANGED <<cfg, track_matching_queue, spawned_tracks, call_ts, last, cost_matrix,
                   assignments_opt, cache, threads>>

NextSolver == RunGreedy \/ RunHungarian

SpecSolver == InitSolver /\ [][NextSolver]_vars

\* Both solvers on the same cost matrix (each on its own copy: hungarian_matching
\* overwrites the inf entries of the array it is given).
RunBoth ==
    /\ solved = "none"
    /\ assignments' \in greedy_matching(cost_matrix)
    /\ assignments_opt' \in hungarian_matching(cost_matrix)
    /\ solved' = "both"
    /\ UNCHANGED <<cfg, track_matching_queue, spawned_tracks, call_ts, last, cost_matrix,
                   cache, threads>>

SpecBoth == InitSolver /\ [][RunBoth]_vars

\* ------------------------------------------------------------------ scorers
\* The instance objects a scorer is called on.
NObjects == 2

\* An instance with its first keypoint at p and the others at q.
Spread(p, q) == Detection(List([n \in Nodes |-> IF n = 1 THEN p ELSE q]))

\* The instances the scorers are applied to: a single place, three boxes of
\* which two are disjoint, one keypoint visible, none visible.
ScorePool ==
    { Detection(FullAt(Pt(0, 0))), Spread(Pt(0, 0), Pt(1, 1)), Spread(Pt(2, 2), Pt(3, 3)),
      Spread(Pt(2, 0), Pt(0, 2)), Spread(Pt(1, 3), Missing), Detection(NoneVisible) }

\* An object is an instance under a key; the points of an instance can be
\* set between two calls, so a key can come with any instance of the pool.
ScoreObjects ==
    {[key |-> <<"object", 0, k>>, inst |-> inst] : k \in 1..NObjects, inst \in ScorePool}

NoScore == [function |-> "none"]

InitScore ==
    /\ cfg = DefaultConfig
    /\ track_matching_queue = <<>>
    /\ spawned_tracks = <<>>
    /\ call_ts = <<>>
    /\ last = NoScore
    /\ cost_matrix = <<>>
    /\ assignments = <<>>
    /\ solved = "none"
    /\ assignments_opt = <<>>
    /\ cache = <<>>
    /\ threads = <<>>

\* centroid_distance(ref, query) and then centroid_distance(query, ref), both
\* with the default cache, which is the one every earlier call used; fresh
\* and fresh_swapped are the two calls with an empty cache given to each.
ScoreCentroidDistance(ref, query) ==
    /\ ref.key = query.key => ref.inst = query.inst
    /\ LET first == centroid_distance_cached(cache, ref, query)
           second == centroid_distance_cached(first.cache, query, ref)
       IN  /\ last' = [function |-> "centroid_distance", ref |-> ref, query |-> query,
                       cache_before |-> cache,
                       value |-> first.value, swapped |-> second.value,
                       fresh |-> centroid_distance_cached(<<>>, ref, query).value,
                       fresh_swapped |-> centroid_distance_cached(<<>>, query, ref).value]
           /\ cache' = second.cache
    /\ UNCHANGED <<cfg, track_matching_queue, spawned_tracks, call_ts, cost_matrix,
                   assignments, solved, assignments_opt, threads>>

NextCentroidDistance == \E ref, query \in ScoreObjects : ScoreCentroidDistance(ref, query)

SpecCentroidDistance == InitScore /\ [][NextCentroidDistance]_vars

\* instance_iou(ref, query) with the default cache, which is the one every
\* earlier call used.  The points of an object are as they were when it was
\* first scored.
ScoreIoU(ref, query) ==
    /\ ref.key = query.key => ref.inst = query.inst
    /\ \A object \in {ref, query} :
          object.key \in DOMAIN cache => cache[object.key] = bounding_box(object.inst)
    /\ LET scored == instance_iou(cache, ref, query)
       IN  /\ last' = [function |-> "instance_iou", ref |-> ref, query |-> query,
                       cache_before |-> cache, value |-> scored.value]
           /\ cache' = scored.cache
    /\ UNCHANGED <<cfg, track_matching_queue, spawned_tracks, call_ts, cost_matrix,
                   assignments, solved, assignments_opt, threads>>

NextIoU == \E ref, query \in ScoreObjects : ScoreIoU(ref, query)

SpecIoU == InitScore /\ [][NextIoU]_vars

\* ------------------------------------------------------------------ claims
\* What the last call's log says about detection i.
OutputsOf(i) == {k \in 1..Len(last.tracked) : last.tracked[k].ind = i}
MatchedRows == {assignments[e][1] : e \in 1..Len(assignments)}
QueueInstances ==
    UNION {Range(track_matching_queue[q].instances_t) :
             q \in 1..Len(track_matching_queue)}

\* C1: after any sequence of track calls the matching queue holds at most
\* track_window entries.
C1_QueueWithinWindow == Len(track_matching_queue) <= cfg.track_window

\* C1 witness: more calls were made than the window holds, and the queue is
\* full.
C1_Witness ==
    /\ cfg.track_window >= 1
    /\ Len(call_ts) > cfg.track_window
    /\ Len(track_matching_queue) = cfg.track_window

\* C2: with track_window = W >= 1, after more than W calls the queue holds
\* exactly W entries whose timesteps are, oldest first, those of the last W
\* calls; with W = 1 it holds only the most recent call's timestep.
C2_SlidingWindow ==
    LET W == cfg.track_window
        N == Len(call_ts)
    IN  /\ (W >= 1 /\ N > W) =>
              /\ Len(track_matching_queue) = W
              /\ \A k \in 1..W : track_matching_queue[k].t = call_ts[N - W + k]
        /\ (W = 1 /\ N >= 1) =>
              /\ Len(track_matching_queue) = 1
              /\ track_matching_queue[1].t = call_ts[N]

\* C2 witness: a window of two after three calls, the evicted call having a
\* timestep of its own.
C2_Witness ==
    /\ cfg.track_window = 2
    /\ Len(call_ts) = 3
    /\ call_ts[1] # call_ts[2]
    /\ call_ts[1] # call_ts[3]

\* C3 as stated: with track_window = 0 the queue is always empty, no solver
\* ever runs on candidates, and every detection passed to track spawns a new
\* Track.
C3_Original ==
    cfg.track_window = 0 =>
        /\ track_matching_queue = <<>>
        /\ solved = "none"
        /\ \A i \in 1..Len(last.untracked) :
              \E k \in OutputsOf(i) : last.tracked[k].how = "spawned"

\* C3 amended: with track_window = 0 the queue is always empty, no candidates
\* exist and nothing is matched; every detection with at least
\* min_new_track_points visible keypoints spawns a new Track, and the others
\* are dropped.
C3_NoHistory ==
    cfg.track_window = 0 =>
        /\ track_matching_queue = <<>>
        /\ GetCandidates(cfg, track_matching_queue, last.t, last.img) = {Returned(<<>>)}
        /\ solved = "none"
        /\ assignments = <<>>
        /\ \A i \in 1..Len(last.untracked) :
              IF n_visible_points(last.untracked[i].points) >= cfg.min_new_track_points
              THEN /\ Cardinality(OutputsOf(i)) = 1
                   /\ \A k \in OutputsOf(i) :
                         /\ last.tracked[k].how = "spawned"
                         /\ last.tracked[k].inst.track[1] > last.n_tracks_before
                         /\ last.tracked[k].inst.track[1] <= Len(spawned_tracks)
              ELSE OutputsOf(i) = {}
        /\ Len(spawned_tracks) - last.n_tracks_before = Len(last.tracked)

\* C3 witness: a later call on a Tracker without window, one detection
\* spawning and one dropped.
C3_Witness ==
    /\ cfg.track_window = 0
    /\ Len(call_ts) >= 2
    /\ last.n_tracks_before > 0
    /\ Len(last.untracked) = 2
    /\ Len(last.tracked) = 1

\* C4: every instance returned by track, and every instance stored in a queue
\* entry, carries exactly one Track of the Tracker, never none.
C4_OutputCarriesTrack ==
    \A inst \in Range(last.result) \cup QueueInstances :
        /\ Len(inst.track) = 1
        /\ inst.track[1] \in 1..Len(spawned_tracks)

\* C4 witness: a call that returned a matched and a spawned instance.
C4_Witness ==
    /\ \E k \in 1..Len(last.tracked) : last.tracked[k].how = "matched"
    /\ \E k \in 1..Len(last.tracked) : last.tracked[k].how = "spawned"
    /\ last.result \in Range([q \in 1..Len(track_matching_queue) |->
                                track_matching_queue[q].instances_t])

\* C5: in every call each detection index has exactly one outcome: matched
\* (one output), spawned (one output) or dropped (no output); no index has
\* two outputs, and the output size is matched + spawned.
C5_OneOutcomePerDetection ==
    /\ \A i \in 1..Len(last.untracked) : Cardinality(OutputsOf(i)) <= 1
    /\ \A k \in 1..Len(last.tracked) :
          /\ last.tracked[k].ind \in 1..Len(last.untracked)
          /\ last.tracked[k].how = "matched" <=> last.tracked[k].ind \in MatchedRows
          /\ last.tracked[k].how \in {"matched", "spawned"}
    /\ Len(last.result) = Len(assignments) + (Len(spawned_tracks) - last.n_tracks_before)
    /\ Len(last.result) = Len(last.tracked)

\* C5 witness: a call with two detections, one matched and one dropped.
C5_Witness ==
    /\ Len(last.untracked) = 2
    /\ \E k \in 1..Len(last.tracked) : last.tracked[k].how = "matched"
    /\ \E i \in 1..Len(last.untracked) : OutputsOf(i) = {}

\* C6: a detection the solver did not match and that has fewer than
\* min_new_track_points visible keypoints is not in the output and spawns no
\* Track; an unmatched one with at least that many always spawns one.
C6_SpawnThreshold ==
    LET unmatched == {i \in 1..Len(last.untracked) : i \notin MatchedRows}
        qualifies(i) ==
            n_visible_points(last.untracked[i].points) >= cfg.min_new_track_points
    IN  /\ \A i \in unmatched :
              IF qualifies(i)
              THEN \E k \in OutputsOf(i) :
                      /\ last.tracked[k].how = "spawned"
                      /\ last.tracked[k].inst.track[1] > last.n_tracks_before
                      /\ last.tracked[k].inst.points = last.untracked[i].points
              ELSE OutputsOf(i) = {}
        /\ Len(spawned_tracks) - last.n_tracks_before =
              Cardinality({i \in unmatched : qualifies(i)})

\* C6 witness: the solver ran, and of the detections it left unmatched one
\* was too small and dropped; the threshold is the full keypoint count.
C6_Witness ==
    /\ solved # "none"
    /\ cfg.min_new_track_points = NNodes
    /\ \E i \in 1..Len(last.untracked) :
          /\ i \notin MatchedRows
          /\ n_visible_points(last.untracked[i].points) < cfg.min_new_track_points
          /\ OutputsOf(i) = {}

\* C7 as stated: the returned list is in detection-input order.
C7_Original ==
    \A k1, k2 \in 1..Len(last.tracked) :
        k1 < k2 => last.tracked[k1].ind < last.tracked[k2].ind

\* C7 amended: the returned list holds first the matched instances, in the
\* order of the solver's edges, then the spawned instances in detection-input
\* order.
C7_MatchedThenSpawned ==
    /\ Len(last.tracked) >= Len(assignments)
    /\ \A k \in 1..Len(last.tracked) :
          IF k <= Len(assignments)
          THEN /\ last.tracked[k].how = "matched"
               /\ last.tracked[k].ind = assignments[k][1]
          ELSE last.tracked[k].how = "spawned"
    /\ \A k1, k2 \in (Len(assignments) + 1)..Len(last.tracked) :
          k1 < k2 => last.tracked[k1].ind < last.tracked[k2].ind
    /\ last.result = List([k \in 1..Len(last.tracked) |-> last.tracked[k].inst])

\* C7 witness: the second detection was matched and the first spawned, so
\* the output is not in input order.
C7_Witness ==
    /\ Len(last.tracked) = 2
    /\ last.tracked[1].how = "matched"
    /\ last.tracked[1].ind = 2
    /\ last.tracked[2].how = "spawned"
    /\ last.tracked[2].ind = 1

\* C8: the timestep of a call is the explicit t if given, else that of the
\* newest queue entry plus one if the queue is not empty, else 0; the appended
\* queue entry and every Track spawned in the call record that value.
C8_Timestep ==
    [][LET queue == track_matching_queue
           expected == IF last'.t_arg # <<>> THEN last'.t_arg[1]
                       ELSE IF Len(queue) > 0 THEN queue[Len(queue)].t + 1
                       ELSE 0
       IN  /\ last'.t = expected
           /\ call_ts' = Append(call_ts, expected)
           /\ cfg.track_window >= 1 =>
                 /\ Len(track_matching_queue') >= 1
                 /\ track_matching_queue'[Len(track_matching_queue')].t = expected
           /\ \A k \in (Len(spawned_tracks) + 1)..Len(spawned_tracks') :
                 spawned_tracks'[k].spawned_on = expected
           /\ \A k \in 1..Len(spawned_tracks) :
                 spawned_tracks'[k] = spawned_tracks[k]
      ]_<<track_matching_queue, spawned_tracks, call_ts, last>>

\* C8 witness: t was omitted after a call with t = 5 and a later one, so the
\* timestep 7 came from the queue, and a Track was spawned on it.
C8_Witness ==
    /\ last.t_arg = <<>>
    /\ last.t = 7
    /\ Len(spawned_tracks) > last.n_tracks_before
    /\ spawned_tracks[Len(spawned_tracks)].spawned_on = 7
    /\ track_matching_queue[Len(track_matching_queue)].t = 7

\* C9: for every cost matrix the edge list greedy_matching or
\* hungarian_matching returns uses each row index at most once and each
\* column index at most once.
C9_EdgesDisjoint ==
    solved # "none" =>
        /\ \A e \in 1..Len(assignments) : assignments[e] \in Cells(cost_matrix)
        /\ \A e1, e2 \in 1..Len(assignments) :
              e1 # e2 => /\ assignments[e1][1] # assignments[e2][1]
                         /\ assignments[e1][2] # assignments[e2][2]

\* C9 witness: each solver returned two edges for a matrix with two rows and
\* two columns; here the greedy one, on costs that are not all equal.
C9_Witness ==
    /\ solved = "greedy"
    /\ NRows(cost_matrix) = 2
    /\ NCols(cost_matrix) = 2
    /\ Len(assignments) = 2
    /\ cost_matrix[1][1] # cost_matrix[2][2]

\* C10 as stated: greedy_matching never returns an edge whose cost is inf.
C10_GreedyNeverInf ==
    solved = "greedy" =>
        \A e \in 1..Len(assignments) :
            ~IsInf(cost_matrix[assignments[e][1]][assignments[e][2]])

\* Every entry of M is a finite number.
AllFinite(M) == \A c \in Cells(M) : IsNum(M[c[1]][c[2]])

\* C11: on a cost matrix with only finite entries, the costs of the edges of
\* hungarian_matching sum to at most the costs of the edges of greedy_matching
\* on the same matrix.
C11_HungarianNoWorse ==
    (solved = "both" /\ AllFinite(cost_matrix)) =>
        TotalCost(cost_matrix, assignments_opt) <= TotalCost(cost_matrix, assignments)

\* Both solvers ran on a finite matrix and greedy_matching did strictly worse.
C11_Witness ==
    /\ solved = "both"
    /\ AllFinite(cost_matrix)
    /\ TotalCost(cost_matrix, assignments_opt) < TotalCost(cost_matrix, assignments)

\* The number a sequence of decimal digits reads as.
RECURSIVE DecimalValue(_)
DecimalValue(ds) ==
    IF ds = <<>> THEN 0 ELSE 10 * DecimalValue(SubSeq(ds, 1, Len(ds) - 1)) + ds[Len(ds)]

\* The detection has every keypoint visible.
IsFull(inst) == n_visible_points(inst.points) = NNodes

\* C12: the k-th Track of spawned_tracks (counting from 0) is named "track_k",
\* no two Tracks share a name, and two detections with every keypoint visible
\* given at frame 0 to a tracker without history get track_0 and track_1.
C12_TrackNames ==
    /\ \A k \in 1..Len(spawned_tracks) :
         LET name == spawned_tracks[k].name
         IN  /\ Len(name) >= 2
             /\ name[1] = "track_"
             /\ \A d \in 2..Len(name) : name[d] \in 0..9
             /\ Len(name) > 2 => name[2] # 0
             /\ DecimalValue(Tail(name)) = k - 1
    /\ \A k, l \in 1..Len(spawned_tracks) :
         k # l => spawned_tracks[k].name # spawned_tracks[l].name
    /\ (/\ Len(call_ts) = 1
        /\ last.t = 0
        /\ Len(last.untracked) = 2
        /\ \A i \in 1..2 : IsFull(last.untracked[i]))
       => /\ Len(last.result) = 2
          /\ \A i \in 1..2 :
                spawned_tracks[last.result[i].track[1]].name = <<"track_", i - 1>>

\* The first call, at frame 0, got two fully visible detections and spawned
\* two Tracks for them.
C12_Witness ==
    /\ Len(call_ts) = 1
    /\ last.t = 0
    /\ Len(last.untracked) = 2
    /\ \A i \in 1..2 : IsFull(last.untracked[i])
    /\ Len(spawned_tracks) = 2

\* The outputs of the last call that got a newly spawned Track for detection i.
SpawnedFor(i) == {k \in OutputsOf(i) : last.tracked[k].how = "spawned"}

\* C13: a call spawns at most one Track per input detection, spawned_tracks
\* only grows (no Track is removed or replaced), and every Track carried by
\* an instance in the queue is an element of spawned_tracks.
C13_TrackLifecycle ==
    [][ /\ Len(spawned_tracks') >= Len(spawned_tracks)
        /\ SubSeq(spawned_tracks', 1, Len(spawned_tracks)) = spawned_tracks
        /\ Len(spawned_tracks') - Len(spawned_tracks) <= Len(last'.untracked)
        /\ \A i \in 1..Len(last'.untracked) : Cardinality(SpawnedFor(i)') <= 1
        /\ Len(spawned_tracks') - Len(spawned_tracks) =
              Cardinality(UNION {SpawnedFor(i)' : i \in 1..Len(last'.untracked)})
        /\ \A inst \in QueueInstances' :
              /\ inst.track # <<>>
              /\ inst.track[1] \in 1..Len(spawned_tracks') ]_vars

\* The last call spawned a Track after earlier calls had spawned others, and
\* the queue holds an instance of an earlier Track next to one of a new Track.
C13_Witness ==
    /\ last.n_tracks_before > 0
    /\ Len(spawned_tracks) > last.n_tracks_before
    /\ \E a, b \in QueueInstances :
          /\ a.track # <<>> /\ a.track[1] <= last.n_tracks_before
          /\ b.track # <<>> /\ b.track[1] > last.n_tracks_before

\* The greater of two integers.
Max(a, b) == IF a >= b THEN a ELSE b

\* The last n elements of a sequence (all of it when it is shorter).
LastN(xs, n) == SubSeq(xs, Max(1, Len(xs) - n + 1), Len(xs))

\* C14: a call with an empty detection list returns an empty list, spawns no
\* Track, does not ask the candidate maker, and still appends the queue entry
\* (t, [], img), the oldest entry leaving a queue that is at capacity.
C14_EmptyDetections ==
    [][ (call_ts' # call_ts /\ last'.untracked = <<>>) =>
          /\ last'.result = <<>>
          /\ spawned_tracks' = spawned_tracks
          /\ last'.candidates = <<>>
          /\ solved' = "none"
          /\ track_matching_queue' =
                LastN(Append(track_matching_queue,
                             [t |-> last'.t, instances_t |-> <<>>, img_t |-> last'.img]),
                      cfg.track_window) ]_vars

\* A call with an image and no detection was made on a full queue by a
\* tracker that had spawned Tracks: the queue is still full and ends with
\* the empty entry.
C14_Witness ==
    /\ Len(call_ts) = MaxCalls
    /\ last.untracked = <<>>
    /\ last.img # <<>>
    /\ cfg.track_window = MaxWindow
    /\ Len(track_matching_queue) = MaxWindow
    /\ track_matching_queue[MaxWindow].instances_t = <<>>
    /\ track_matching_queue[MaxWindow].img_t = last.img
    /\ Len(spawned_tracks) > 0

\* The candidate maker was asked in the last call and returned an empty pool.
EmptyPool == last.candidates = << <<>> >>

\* C15: when the candidate maker returns an empty pool for a non-empty
\* detection list, no matching is attempted and every detection goes to the
\* spawn step: a new Track if it has at least min_new_track_points visible
\* keypoints, no output otherwise.
C15_EmptyPool ==
    (Len(last.untracked) > 0 /\ EmptyPool) =>
        /\ solved = "none"
        /\ assignments = <<>>
        /\ \A k \in 1..Len(last.tracked) : last.tracked[k].how = "spawned"
        /\ \A i \in 1..Len(last.untracked) :
              IF n_visible_points(last.untracked[i].points) >= cfg.min_new_track_points
              THEN /\ Cardinality(OutputsOf(i)) = 1
                   /\ \A k \in OutputsOf(i) :
                         /\ last.tracked[k].inst.track # <<>>
                         /\ last.tracked[k].inst.track[1] > last.n_tracks_before
              ELSE OutputsOf(i) = {}

\* After earlier calls, the candidate maker returned an empty pool for two
\* detections; one got a new Track and the other, too small, got none.
C15_Witness ==
    /\ Len(call_ts) >= 2
    /\ EmptyPool
    /\ Len(last.untracked) = 2
    /\ Len(last.tracked) = 1
    /\ Len(spawned_tracks) = last.n_tracks_before + 1

\* The last call handed a cost matrix to a solver.
Matched == solved \in {"greedy", "hungarian"}

\* C16: for each edge (i, j) the solver returns, the output for detection i
\* carries the Track of candidate-track column j and a tracking_score equal
\* to the best similarity recorded for (i, j), the one whose negation (inf in
\* place of NaN) is the cost entry (i, j).
C16_EdgeGivesTrackAndScore ==
    Matched =>
        LET tracks == CandidateTracks(last.candidates[1])
        IN  \A e \in 1..Len(assignments) :
              LET i == assignments[e][1]
                  j == assignments[e][2]
                  out == last.tracked[e]
                  score == out.inst.tracking_score
              IN  /\ out.ind = i
                  /\ out.how = "matched"
                  /\ out.inst.points = last.untracked[i].points
                  /\ out.inst.track = tracks[j]
                  /\ out.inst.track # <<>>
                  /\ IF IsInf(cost_matrix[i][j]) THEN IsNaN(score)
                     ELSE IsNum(score) /\ score.v = 0 - cost_matrix[i][j].v

\* Two detections were matched to two candidate tracks, the first detection
\* to the second track, with a positive score.
C16_Witness ==
    /\ Matched
    /\ Len(assignments) = 2
    /\ \E e \in 1..2 :
          /\ assignments[e] = <<1, 2>>
          /\ IsNum(last.tracked[e].inst.tracking_score)
          /\ last.tracked[e].inst.tracking_score.v > 0
          /\ last.tracked[e].inst.track = CandidateTracks(last.candidates[1])[2]

\* The similarities of detection i of the last call to the candidates of
\* candidate track j, in pool order.
TrackSimilarities(i, j) ==
    LET candidates == last.candidates[1]
        track_instances == TrackInstances(candidates, CandidateTracks(candidates)[j])
    IN  List([k \in 1..Len(track_instances) |->
                Similarity(cfg, last.untracked[i], track_instances[k])])

\* C17: for every detection and candidate track, the candidate selected within
\* the track is one with the highest similarity among the track's candidates,
\* the first of them in pool order, also when some of the track's candidates
\* score NaN against the detection.
C17_BestCandidate ==
    Matched =>
        \A i \in 1..Len(last.best_inds) : \A j \in 1..Len(last.best_inds[i]) :
            LET sims == TrackSimilarities(i, j)
                best_ind == last.best_inds[i][j]
            IN  (\E k \in 1..Len(sims) : IsNum(sims[k])) =>
                    /\ IsNum(sims[best_ind])
                    /\ \A k \in 1..Len(sims) :
                          IsNum(sims[k]) => sims[k].v <= sims[best_ind].v
                    /\ \A k \in 1..(best_ind - 1) :
                          IsNum(sims[k]) => sims[k].v < sims[best_ind].v

\* C18: every entry of the cost matrix handed to the solver is the negated
\* best similarity of its detection and candidate track, +inf where that
\* similarity is NaN: no NaN reaches a solver.
C18_CostIsNegatedSimilarity ==
    Matched =>
        /\ NRows(cost_matrix) = Len(last.untracked)
        /\ NCols(cost_matrix) = Len(CandidateTracks(last.candidates[1]))
        /\ \A c \in Cells(cost_matrix) :
              LET best_similarity == TrackSimilarities(c[1], c[2])[last.best_inds[c[1]][c[2]]]
                  cost == cost_matrix[c[1]][c[2]]
              IN  /\ ~IsNaN(cost)
                  /\ IsNaN(best_similarity) => IsInf(cost)
                  /\ IsNum(best_similarity) =>
                        IsNum(cost) /\ cost.v = 0 - best_similarity.v

\* A solver was handed a matrix with an inf entry, from a NaN similarity, next
\* to a negative entry, from a positive one.
C18_Witness ==
    /\ Matched
    /\ \E c \in Cells(cost_matrix) : IsInf(cost_matrix[c[1]][c[2]])
    /\ \E c \in Cells(cost_matrix) :
          IsNum(cost_matrix[c[1]][c[2]]) /\ cost_matrix[c[1]][c[2]].v < 0

\* The cost of a cell with inf read as 0.
CostOrZero(M, i, j) == IF IsInf(M[i][j]) THEN 0 ELSE M[i][j].v

\* The total of an edge list over the matrix with every inf replaced by 0.
TotalInfAsZero(M, edges) ==
    SumSeq(List([e \in 1..Len(edges) |-> CostOrZero(M, edges[e][1], edges[e][2])]))

\* C19: hungarian_matching treats every inf cost as 0: it returns an
\* assignment of min(rows, columns) disjoint edges whose total is least for the
\* matrix with each inf replaced by 0, so an inf edge can be selected rather
\* than a detection left unmatched.
C19_HungarianInfAsZero ==
    solved = "hungarian" =>
        /\ Len(assignments) =
              (IF NRows(cost_matrix) <= NCols(cost_matrix)
               THEN NRows(cost_matrix) ELSE NCols(cost_matrix))
        /\ \A e, f \in 1..Len(assignments) :
              e # f => /\ assignments[e][1] # assignments[f][1]
                       /\ assignments[e][2] # assignments[f][2]
        /\ \A other \in FullAssignments(cost_matrix) :
              TotalInfAsZero(cost_matrix, assignments) <= TotalInfAsZero(cost_matrix, other)

\* hungarian_matching selected an inf edge of a matrix that also has a finite
\* entry, and matched every row.
C19_Witness ==
    /\ solved = "hungarian"
    /\ NRows(cost_matrix) = 2
    /\ Len(assignments) = 2
    /\ \E e \in 1..Len(assignments) : IsInf(cost_matrix[assignments[e][1]][assignments[e][2]])
    /\ \E c \in Cells(cost_matrix) : IsNum(cost_matrix[c[1]][c[2]])

\* The instances of a list with at least min_points visible keypoints, in
\* the order of the list.
RECURSIVE Kept(_, _)
Kept(instances, min_points) ==
    IF instances = <<>> THEN <<>>
    ELSE LET inst == Head(instances)
             visible == {n \in DOMAIN inst.points : inst.points[n].vis}
         IN  (IF Cardinality(visible) >= min_points THEN <<inst>> ELSE <<>>)
                \o Kept(Tail(instances), min_points)

\* The kept instances of a queue, oldest entry first.
RECURSIVE KeptOfQueue(_, _)
KeptOfQueue(queue, min_points) ==
    IF queue = <<>> THEN <<>>
    ELSE KeptOfQueue(SubSeq(queue, 1, Len(queue) - 1), min_points)
            \o Kept(queue[Len(queue)].instances_t, min_points)

\* C20: SimpleCandidateMaker.get_candidates returns exactly the instances of
\* the queue entries that have at least min_points visible keypoints,
\* unchanged and in queue order, oldest entry first, several instances of one
\* Track from different timesteps all kept.
C20_SimpleCandidates ==
    [][ (call_ts' # call_ts /\ last'.candidates # <<>>) =>
            last'.candidates[1] = KeptOfQueue(track_matching_queue, cfg.min_points) ]_vars

\* With min_points 1, the candidate maker returned two instances of one Track
\* from two timesteps and left out an instance without a visible keypoint
\* that is still in the queue.
C20_Witness ==
    /\ cfg.min_points = 1
    /\ last.candidates # <<>>
    /\ Len(track_matching_queue) = 2
    /\ \E k, l \in 1..Len(last.candidates[1]) :
          /\ k < l
          /\ last.candidates[1][k].track = last.candidates[1][l].track
          /\ last.candidates[1][l] \in Range(track_matching_queue[1].instances_t)
          /\ last.candidates[1][k] \notin Range(track_matching_queue[1].instances_t)
    /\ \E inst \in Range(track_matching_queue[1].instances_t) :
          /\ n_visible_points(inst.points) = 0
          /\ inst \notin Range(last.candidates[1])

\* The instances of the queue entries that have a stored image, oldest first.
RECURSIVE InstancesWithImage(_)
InstancesWithImage(queue) ==
    IF queue = <<>> THEN <<>>
    ELSE InstancesWithImage(SubSeq(queue, 1, Len(queue) - 1))
            \o (IF queue[Len(queue)].img_t # <<>>
                THEN queue[Len(queue)].instances_t ELSE <<>>)

\* C21: FlowCandidateMaker.get_candidates projects a queue entry only if it
\* has a stored image and at least one instance; an entry stored without an
\* image is skipped and contributes no candidate, and nothing is raised.
C21_FlowSkipsEntryWithoutImage ==
    [][ (/\ cfg.candidate_maker = "flow"
         /\ last' # last
         /\ Len(last'.untracked) > 0
         /\ last'.img # <<>>) =>
            /\ last'.raised = <<>>
            /\ List([k \in 1..Len(last'.flow_log) |-> last'.flow_log[k].ref])
                  = InstancesWithImage(track_matching_queue) ]_vars

\* The candidates are the projections kept from the flow log, in its order:
\* one for each reference instance with more than min_shifted_points found
\* keypoints, with the reference's Track, as many keypoints as the reference,
\* and every keypoint that was not found missing.
RECURSIVE KeptFromLog(_, _, _)
KeptFromLog(flow_log, candidates, min_shifted_points) ==
    IF flow_log = <<>> THEN candidates = <<>>
    ELSE IF Cardinality(Head(flow_log).found) > min_shifted_points
    THEN /\ candidates # <<>>
         /\ Head(candidates).track = Head(flow_log).ref.track
         /\ Len(Head(candidates).points) = Len(Head(flow_log).ref.points)
         /\ \A n \in 1..Len(Head(candidates).points) :
               n \notin Head(flow_log).found => ~Head(candidates).points[n].vis
         /\ KeptFromLog(Tail(flow_log), Tail(candidates), min_shifted_points)
    ELSE KeptFromLog(Tail(flow_log), candidates, min_shifted_points)

\* The FlowCandidateMaker returned a pool in the last call.
FlowReturned == cfg.candidate_maker = "flow" /\ last.candidates # <<>>

C23_MemoScopedToStep == last.cache_hits = {}

\* C24: constructing a Tracker with a negative track_window fails at
\* construction; no track call runs on a Tracker whose track_window is
\* negative.
C24_NoNegativeWindow ==
    (cfg # NoTracker /\ Len(call_ts) > 0) => cfg.track_window >= 0

\* C25: a similarity function, matching function or candidate maker that is
\* not one of the recognised strategies is rejected at construction; it never
\* first shows as an error raised inside a track call.
C25_NoUnknownStrategy ==
    cfg # NoTracker => last.raised = <<>>

\* The last call got one fully visible detection and spawned a Track for it.
SpawnedSingle ==
    /\ last.raised = <<>>
    /\ Len(last.untracked) = 1
    /\ IsFull(last.untracked[1])
    /\ Len(last.tracked) = 1
    /\ last.tracked[1].how = "spawned"

\* C26: if a call spawns one Track for one fully visible detection and the
\* next call, with track_window >= 1 and simple candidates, presents one
\* detection with its keypoints at the same places, the output instance
\* carries that Track and spawned_tracks does not grow.
C26_TrackContinuity ==
    [][ (/\ SpawnedSingle
         /\ cfg.track_window >= 1
         /\ cfg.candidate_maker = "simple"
         /\ call_ts' # call_ts
         /\ Len(last'.untracked) = 1
         /\ last'.untracked[1].points = last.untracked[1].points) =>
            /\ Len(last'.result) = 1
            /\ last'.result[1].track = last.result[1].track
            /\ last'.result[1].track # <<>>
            /\ spawned_tracks' = spawned_tracks ]_vars

\* The second call matched its detection to the Track that the first call
\* had spawned for a detection at the same place, with the highest score.
C26_Witness ==
    /\ Len(call_ts) = 2
    /\ cfg.track_window = MaxWindow
    /\ Len(spawned_tracks) = 1
    /\ Len(track_matching_queue[1].instances_t) = 1
    /\ Len(last.untracked) = 1
    /\ IsFull(last.untracked[1])
    /\ track_matching_queue[1].instances_t[1].points = last.untracked[1].points
    /\ Len(last.tracked) = 1
    /\ last.tracked[1].how = "matched"
    /\ last.result[1].track = track_matching_queue[1].instances_t[1].track
    /\ last.result[1].tracking_score = Num(10000 * SimUnit)

\* Some track call began while another thread was inside track.
Overlapped == \E th \in ThreadIds : threads[th].pc # "idle" /\ threads[th].overlapped

\* Two Tracks of spawned_tracks bear the same name.
SameName == \E k, l \in 1..Len(spawned_tracks) :
                k # l /\ spawned_tracks[k].name = spawned_tracks[l].name

\* C27: track is not safe to call concurrently on one Tracker.  Calls made
\* one after the other, in any order, give the spawned Tracks distinct names;
\* an interleaving of two calls in which both read the spawn count before
\* either appends ends with two Tracks of the same name (the witness).
C27_SequentialNamesDistinct == ~Overlapped => ~SameName

\* Two calls that overlapped are over, each spawned one Track, and the two
\* Tracks in spawned_tracks bear the same name.
C27_Witness ==
    /\ \A th \in ThreadIds : threads[th].pc = "done"
    /\ Overlapped
    /\ \A th \in ThreadIds : Len(threads[th].untracked) = 1 /\ Len(threads[th].tracked) = 1
    /\ Len(spawned_tracks) = NThreads
    /\ SameName

\* C28: centroid_distance is symmetric: centroid_distance(a, b) and
\* centroid_distance(b, a) return the same float (the same number, or NaN both
\* ways when an instance has no visible keypoint), both when the two calls
\* share the function's cache with each other and with every earlier call,
\* and when each call is given an empty cache.
C28_CentroidDistanceSymmetric ==
    last.function = "centroid_distance" =>
        /\ last.value = last.swapped
        /\ last.fresh = last.fresh_swapped

\* Two distinct objects at different centroids were scored both ways with a
\* cache that an earlier call had filled, the entry of one of them no longer
\* being the centroid of its points.
C28_Witness ==
    /\ last.function = "centroid_distance"
    /\ last.ref.key # last.query.key
    /\ last.ref.key \in DOMAIN last.cache_before
    /\ last.cache_before[last.ref.key] # centroid(last.ref.inst)
    /\ IsNum(last.value) /\ last.value.v < 0
    /\ IsNum(last.fresh) /\ last.fresh # last.value
    /\ last.value = last.swapped

\* The visible keypoints of an instance.
VisiblePoints(inst) == {inst.points[n] : n \in {m \in DOMAIN inst.points : inst.points[m].vis}}

\* The per-axis min and max over the visible keypoints enclose an area.
HasArea(inst) ==
    /\ \E p, q \in VisiblePoints(inst) : p.x # q.x
    /\ \E p, q \in VisiblePoints(inst) : p.y # q.y

\* The keypoint bounding boxes of two instances have no point in common: on
\* one axis all of one lies below all of the other.
DisjointBoxes(a, b) ==
    /\ VisiblePoints(a) # {} /\ VisiblePoints(b) # {}
    /\ \/ \A p \in VisiblePoints(a), q \in VisiblePoints(b) : p.x < q.x
       \/ \A p \in VisiblePoints(a), q \in VisiblePoints(b) : q.x < p.x
       \/ \A p \in VisiblePoints(a), q \in VisiblePoints(b) : p.y < q.y
       \/ \A p \in VisiblePoints(a), q \in VisiblePoints(b) : q.y < p.y

RowMajorBefore(e, f) == e[1] < f[1] \/ (e[1] = f[1] /\ e[2] < f[2])

\* The cell of least cost among cells, the earliest one in row-major order
\* when several have that cost.
ReferencePick(M, cells) ==
    CHOOSE e \in cells : \A f \in cells \ {e} :
        \/ SortsBefore(M[e[1]][e[2]], M[f[1]][f[2]])
        \/ ~SortsBefore(M[f[1]][f[2]], M[e[1]][e[2]]) /\ RowMajorBefore(e, f)

\* The reference greedy procedure: pick the cell, record it, discard every
\* cell in its row or column, until no cell remains.
RECURSIVE ReferenceGreedy(_, _)
ReferenceGreedy(M, cells) ==
    IF cells = {} THEN <<>>
    ELSE LET e == ReferencePick(M, cells)
         IN  <<e>> \o ReferenceGreedy(M, {f \in cells : f[1] # e[1] /\ f[2] # e[2]})

\* C30 as stated: greedy_matching returns the edges of the reference greedy
\* procedure, in its order: each edge has the lowest cost among the cells that
\* share no row and no column with the edges before it, among cells of equal
\* cost the one earlier in row-major order is taken, and the list ends only
\* when no such cell remains.
C30_GreedyReference ==
    solved = "greedy" => assignments = ReferenceGreedy(cost_matrix, Cells(cost_matrix))

\* C31: whichever scorer is configured, every cost entry that track hands to
\* hungarian_matching and that is not inf is negative or 0 ("Expects that the
\* costs in cost_matrix will be negative or 0"), so that an inf entry
\* rewritten to 0 is never cheaper than a finite one.
C31_HungarianCostsNotPositive ==
    solved = "hungarian" =>
        \A c \in Cells(cost_matrix) :
            IsNum(cost_matrix[c[1]][c[2]]) => cost_matrix[c[1]][c[2]].v <= 0

\* The lesser of two integers.
Min(a, b) == IF a <= b THEN a ELSE b

\* The outputs of the last call that were matched, and those that were spawned.
MatchedOutputs == {k \in 1..Len(last.tracked) : last.tracked[k].how = "matched"}
SpawnedOutputs == {k \in 1..Len(last.tracked) : last.tracked[k].how = "spawned"}

\* The distinct Tracks of the candidate pool of the last call.
PoolTracks == {last.candidates[1][k].track : k \in 1..Len(last.candidates[1])}

\* C32: there is no similarity threshold: in every track call with a
\* non-empty candidate pool, under either solver, the number of detections
\* matched to existing Tracks is min(number of detections, number of distinct
\* candidate Tracks), and a Track is spawned only when the detections
\* outnumber the candidate Tracks.
C32_NoThreshold ==
    (last.raised = <<>> /\ last.candidates # <<>> /\ ~EmptyPool) =>
        /\ Cardinality(MatchedOutputs) =
              Min(Len(last.untracked), Cardinality(PoolTracks))
        /\ SpawnedOutputs # {} => Len(last.untracked) > Cardinality(PoolTracks)

\* Two detections met a pool of two Tracks and both were matched, one of them
\* without a visible keypoint, so with a similarity of NaN to every candidate.
C32_Witness ==
    /\ last.raised = <<>> /\ last.candidates # <<>> /\ ~EmptyPool
    /\ Len(last.untracked) = 2
    /\ Cardinality(PoolTracks) = 2
    /\ Cardinality(MatchedOutputs) = 2
    /\ \E i \in 1..Len(last.untracked) : n_visible_points(last.untracked[i].points) = 0

\* The instances of a list carry pairwise distinct Tracks.
DistinctTracks(instances) ==
    \A k, l \in 1..Len(instances) : k # l => instances[k].track # instances[l].track

\* C33: within a single track call no two returned instances carry the same
\* Track; hence the instances of each queue entry carry pairwise distinct
\* Tracks.
C33_DistinctTracksPerCall ==
    /\ DistinctTracks(last.result)
    /\ \A q \in 1..Len(track_matching_queue) :
          DistinctTracks(track_matching_queue[q].instances_t)

\* The last call returned a matched and a spawned instance, and the newest
\* queue entry holds the two.
C33_Witness ==
    /\ MatchedOutputs # {} /\ SpawnedOutputs # {}
    /\ Len(track_matching_queue) > 0
    /\ track_matching_queue[Len(track_matching_queue)].instances_t = last.result
    /\ Len(last.result) = 2

\* The Tracks carried by the instances of the queue.
QueueTracks == {inst.track : inst \in QueueInstances}

\* The Tracks spawned so far.
AllTracks == {<<n>> : n \in 1..Len(spawned_tracks)}

\* C34: every Track assigned to an output instance of a track call is either
\* spawned in that call or carried by an instance that was in the queue when
\* the call began; a Track that no instance in the queue carries is not in
\* the queue after the call either, so it is never assigned again.
C34_TracksComeFromQueue ==
    [][ call_ts' # call_ts =>
          /\ \A k \in 1..Len(last'.result) :
                \/ last'.result[k].track \in QueueTracks
                \/ last'.result[k].track \in AllTracks' \ AllTracks
          /\ \A tr \in AllTracks \ QueueTracks :
                /\ \A k \in 1..Len(last'.result) : last'.result[k].track # tr
                /\ tr \notin QueueTracks' ]_vars

\* The last call matched a detection to a Track of the queue, and a Track
\* spawned earlier is carried by no instance of the queue any more.
C34_Witness ==
    /\ MatchedOutputs # {}
    /\ AllTracks \ QueueTracks # {}
    /\ QueueTracks # {}

\* C35: when t is omitted on every call, the k-th call (k = 0, 1, 2, ...)
\* uses timestep k, whatever the track_window: the timesteps of successive
\* calls are strictly increasing and the Tracks spawned in the k-th call have
\* spawned_on = k.
C35_TimestepIsCallIndex ==
    /\ \A k \in 1..Len(call_ts) : call_ts[k] = k - 1
    /\ \A n \in (last.n_tracks_before + 1)..Len(spawned_tracks) :
          spawned_tracks[n].spawned_on = Len(call_ts) - 1

\* C36: every output instance that track assigns to an existing Track has a
\* tracking_score that is a number, never NaN; a detection without a visible
\* keypoint is never matched to an existing Track.
C36_MatchedScoreIsNumber ==
    \A k \in MatchedOutputs :
        /\ IsNum(last.tracked[k].inst.tracking_score)
        /\ n_visible_points(last.tracked[k].inst.points) > 0

\* C37: after track_window calls in a row with an empty detection list, each
\* of which still appends an entry, the queue holds no instance at all, so in
\* the next call every detection is spawned or dropped and none is matched to
\* a Track that existed before the gap.
C37_GapEmptiesQueue ==
    /\ last.empty_run >= cfg.track_window => QueueInstances = {}
    /\ (Len(call_ts) > 0 /\ last.gap_before >= cfg.track_window) =>
          /\ MatchedOutputs = {}
          /\ \A k \in 1..Len(last.result) :
                last.result[k].track \notin {<<n>> : n \in 1..last.n_tracks_before}

\* A Track existed, then came as many empty calls as the window is long, and
\* the detection of the next call got a new Track.
C37_Witness ==
    /\ cfg.track_window >= 1
    /\ last.gap_before >= cfg.track_window
    /\ last.n_tracks_before >= 1
    /\ Len(last.untracked) > 0
    /\ SpawnedOutputs # {}

\* C38: track does not modify its inputs: after a call untracked_instances
\* has the same elements in the same order, each with its track and
\* tracking_score as before; the instances returned and stored in the queue
\* are new ones, made from the inputs, that carry the Track.
C38_InputsUnchanged ==
    [][ call_ts' # call_ts =>
          /\ last'.untracked_after = last'.untracked
          /\ \A k \in 1..Len(last'.tracked) :
                /\ last'.tracked[k].inst.track # <<>>
                /\ last'.untracked_after[last'.tracked[k].ind].track = <<>>
                /\ last'.tracked[k].inst.points =
                      last'.untracked_after[last'.tracked[k].ind].points
          /\ cfg.queue_maxlen > 0 =>
                track_matching_queue'[Len(track_matching_queue')].instances_t
                    = last'.result ]_vars

\* A call was given two detections, matched one and spawned a Track for the
\* other, and the two detections are as they were.
C38_Witness ==
    /\ Len(last.untracked) = 2
    /\ Cardinality(MatchedOutputs) = 1
    /\ Cardinality(SpawnedOutputs) = 1
    /\ last.untracked_after = last.untracked
    /\ \A i \in 1..2 : last.untracked[i].track = <<>>

\* C39: a track call that raises while it generates candidates, scores or
\* solves (flow projection from a queue entry without an image, say) leaves
\* the Tracker as it was: the queue and spawned_tracks are those of before the
\* call, and no timestep is recorded (tracked_instances is written after the
\* queue, at the end of a call that returns).
C39_RaiseLeavesState ==
    [][ last'.raised # <<>> =>
          /\ track_matching_queue' = track_matching_queue
          /\ spawned_tracks' = spawned_tracks
          /\ call_ts' = call_ts ]_vars

\* A call raised on a Tracker that had spawned a Track and whose queue holds
\* an entry with an instance and no image.
C39_Witness ==
    /\ last.raised = <<"AttributeError">>
    /\ Len(spawned_tracks) > 0
    /\ \E q \in 1..Len(track_matching_queue) :
          /\ track_matching_queue[q].img_t = <<>>
          /\ Len(track_matching_queue[q].instances_t) > 0

\* C40: with min_new_track_points = 0 every track call returns as many
\* instances as it was given, each detection being matched or given a new
\* Track and none dropped; for any min_new_track_points the output is never
\* longer than the input.
C40_OutputSize ==
    [][ call_ts' # call_ts =>
          /\ Len(last'.result) <= Len(last'.untracked)
          /\ cfg.min_new_track_points = 0 =>
                /\ Len(last'.result) = Len(last'.untracked)
                /\ \A i \in 1..Len(last'.untracked) :
                      Cardinality({k \in 1..Len(last'.tracked) : last'.tracked[k].ind = i}) = 1
        ]_vars

\* With min_new_track_points = 0 a call returned both of its two detections,
\* one of them without a visible keypoint, and spawned a Track.
C40_Witness ==
    /\ cfg.min_new_track_points = 0
    /\ Len(last.untracked) = 2
    /\ Len(last.result) = 2
    /\ \E i \in 1..2 : n_visible_points(last.untracked[i].points) = 0
    /\ SpawnedOutputs # {}
====
